---- MODULE Spec2Model ----
(***************************************************************************)
(* A model of gwdetchar/omega/core.py: the conditioner, the correlator,    *)
(* the significance scanner (scan), the visual feature extractor and the   *)
(* consistency scorer (model).                                             *)
(*                                                                         *)
(* Conventions.                                                            *)
(*  - An optional Python value is a sequence of length 0 (None) or 1.      *)
(*  - A float computed by a division is kept exact, as a fraction          *)
(*    [num, den]; floating-point rounding is not modelled.                 *)
(*  - A TimeSeries is a record [name, sample_rate, hist]: hist is the      *)
(*    sequence of library operations applied to the acquired data.  The    *)
(*    gwpy methods (resample, filter, whiten, detrend, correlate) return   *)
(*    a new series and leave their receiver alone.                         *)
(*  - q_scan, QGram.interpolate, the embedding model and the renderer are  *)
(*    library calls: their results are drawn from the set of results the   *)
(*    library may give.                                                    *)
(***************************************************************************)
EXTENDS Integers, Sequences, FiniteSets, TLC

VARIABLES
    pc,       \* position of the running scan() call, "idle" between calls
    op,       \* the function last called
    args,     \* its arguments
    env,      \* the local variables of scan()
    calls,    \* the calls the function has made, in order
    status,   \* "running", "returned" or "raised"
    ret,      \* the value returned (or the error raised)
    figures   \* number of figures open in pyplot's global registry

vars == <<pc, op, args, env, calls, status, ret, figures>>

\* ---------------------------------------------------------------- bounds

MaxFar == 3        \* false-alarm estimates are 0 .. MaxFar (rank order)
MaxDim == 2        \* feature vectors have at most MaxDim components
MaxFigures == 8    \* calls that open figures stop once this many are open

\* ------------------------------------------------------ values and floats

None == <<>>
Some(v) == <<v>>

\* Python truthiness of an optional number: None and 0 are falsy
Truthy(o) == o # None /\ o[1] # 0

Frac(n, d) == [num |-> n, den |-> d]
FromInt(n) == Frac(n, 1)
FracSub(x, y) == Frac(x.num * y.den - y.num * x.den, x.den * y.den)
FracAdd(x, y) == Frac(x.num * y.den + y.num * x.den, x.den * y.den)
FracDiv(x, y) == Frac(x.num * y.den, x.den * y.num)
FracEq(x, y) == x.num * y.den = y.num * x.den

Segment(a, b) == [lo |-> a, hi |-> b]

RECURSIVE SeqMin(_)
SeqMin(s) ==
    IF Len(s) = 1 THEN s[1]
    ELSE LET m == SeqMin(Tail(s)) IN IF s[1] <= m THEN s[1] ELSE m

RECURSIVE SeqMax(_)
SeqMax(s) ==
    IF Len(s) = 1 THEN s[1]
    ELSE LET m == SeqMax(Tail(s)) IN IF s[1] >= m THEN s[1] ELSE m

\* ------------------------------------------------------ library: TimeSeries

Acquired(name, rate) == [name |-> name, sample_rate |-> rate, hist |-> <<>>]

Resample(series, rate) ==
    [series EXCEPT !.sample_rate = rate,
                   !.hist = Append(@, [op |-> "resample", rate |-> rate])]

Filter(series, design) ==
    [series EXCEPT !.hist = Append(@, [op |-> "filter", design |-> design,
                                        filtfilt |-> TRUE])]

\* ------------------------------------------------------- basic utilities

highpass(series, f_low) ==
    LET corner == FracDiv(FromInt(f_low), Frac(3, 2))
        fs == series.sample_rate
        hpfilt == [kind |-> "butter", order |-> 12, corner |-> corner,
                   btype |-> "highpass", analog |-> FALSE, output |-> "sos",
                   fs |-> fs]
    IN Filter(series, hpfilt)

whiten(series, fftlength, overlap) ==
    LET ov == IF overlap = None THEN Frac(fftlength, 2) ELSE FromInt(overlap[1])
    IN [series EXCEPT !.hist = @ \o
          << [op |-> "whiten", fftlength |-> fftlength, overlap |-> ov,
              window |-> "hann", detrend |-> "linear", method |-> "median"],
             [op |-> "detrend", detrend |-> "linear"] >>]

\* ------------------------------------------------------------ conditioner

\* a conditioner that whitens the resampled input, not the high-passed series
conditioner_whitens_input(xoft, fftlength, overlap, resample, f_low) ==
    LET x1 == IF Truthy(resample) THEN Resample(xoft, resample[1]) ELSE xoft
    IN IF f_low = None
       THEN << whiten(x1, fftlength, overlap), x1 >>
       ELSE << whiten(x1, fftlength, overlap), highpass(x1, f_low[1]), x1 >>

conditioner(xoft, fftlength, overlap, resample, f_low) ==
    LET x1 == IF Truthy(resample) THEN Resample(xoft, resample[1]) ELSE xoft
    IN IF f_low = None
       THEN << whiten(x1, fftlength, overlap), x1 >>
       ELSE LET hpxoft == highpass(x1, f_low[1])
            IN << whiten(hpxoft, fftlength, overlap), hpxoft, x1 >>

\* ------------------------------------------------------------- input sets

Rates == {2048, 4096}
Series == {Acquired(n, r) : n \in {"x"}, r \in Rates}
FftLengths == {2, 4}
Overlaps == {None, Some(1)}
Resamples == {None} \cup {Some(r) : r \in Rates}
FLows == {None, Some(10), Some(20)}

\* ---------------------------------------------------------------- actions

Idle == pc = "idle"

ConditionerCall ==
    /\ Idle
    /\ \E xoft \in Series, fftlength \in FftLengths, overlap \in Overlaps,
          resample \in Resamples, f_low \in FLows :
         /\ op' = "conditioner"
         /\ args' = [xoft |-> xoft, fftlength |-> fftlength,
                     overlap |-> overlap, resample |-> resample,
                     f_low |-> f_low]
         /\ ret' = conditioner(xoft, fftlength, overlap, resample, f_low)
    /\ status' = "returned"
    /\ calls' = <<>>
    /\ env' = <<>>
    /\ UNCHANGED <<pc, figures>>

\* -------------------------------------------------------- cross_correlate

\* TimeSeries.correlate(mf, window): the matched-filter output, sampled at
\* the rate of its receiver
Correlate(x, h, window) ==
    [name |-> "out", sample_rate |-> x.sample_rate,
     hist |-> << [op |-> "correlate", x |-> x, h |-> h, window |-> window] >>]

\* a correlator that brings the lower-rate series up to the higher rate
cross_correlate_upsamples(xoft, hoft) ==
    LET x1 == IF hoft.sample_rate > xoft.sample_rate
              THEN Resample(xoft, hoft.sample_rate) ELSE xoft
        h1 == IF hoft.sample_rate > xoft.sample_rate THEN hoft
              ELSE IF hoft.sample_rate < xoft.sample_rate
                   THEN Resample(hoft, xoft.sample_rate) ELSE hoft
    IN Correlate(x1, h1, "hann")

cross_correlate(xoft, hoft) ==
    LET x1 == IF hoft.sample_rate < xoft.sample_rate
              THEN Resample(xoft, hoft.sample_rate) ELSE xoft
        h1 == IF hoft.sample_rate < xoft.sample_rate THEN hoft
              ELSE IF hoft.sample_rate > xoft.sample_rate
                   THEN Resample(hoft, xoft.sample_rate) ELSE hoft
    IN Correlate(x1, h1, "hann")

CorrRates == {1024, 2048, 4096}

CrossCorrelateCall ==
    /\ Idle
    /\ \E rx \in CorrRates, rh \in CorrRates :
         LET xoft == Acquired("x", rx)
             hoft == Acquired("h", rh)
         IN /\ args' = [xoft |-> xoft, hoft |-> hoft]
            /\ ret' = cross_correlate(xoft, hoft)
    /\ op' = "cross_correlate"
    /\ status' = "returned"
    /\ calls' = <<>>
    /\ env' = <<>>
    /\ UNCHANGED <<pc, figures>>

\* ---------------------------------------------------------- library: Q-scan

\* q_scan(series, mismatch, qrange, frange, search): the Q-gram at the
\* best-fit Q of the range, covering part of frange, and its false-alarm
\* estimate.  Which Q, which coverage and which estimate depend on the data.
QScan(series, mismatch, qrange, frange, search) ==
    { << [plane |-> [q |-> q, frange |-> fr], series |-> series,
          mismatch |-> mismatch, search |-> search], far >> :
        q \in qrange[1] .. qrange[2],
        fr \in { frange, << frange[1] + 1, frange[2] >> },
        far \in 0 .. MaxFar }

\* QGram.interpolate(tres, fres, logf, outseg)
Interpolate(qgram, tres, fres, logf, outseg) ==
    [qgram |-> qgram, tres |-> tres, fres |-> fres, logf |-> logf,
     outseg |-> outseg]

\* ------------------------------------------------------------------- scan

GpsTimes == {100}
Channels ==
    { [qrange |-> <<4, 5>>, frange |-> <<10, 2048>>, pranges |-> pr,
       mismatch |-> Frac(2, 10), always_plot |-> ap] :
        pr \in { <<1, 4, 16>>, <<4, 2>> }, ap \in BOOLEAN }
FThreshes == {1, 2}
Searches == {1}
Nts == {1400}
Nfs == {700}

\* a gate that lets a tie at the threshold pass
Insignificant_strict(far, fthresh, always_plot) ==
    (far > fthresh) /\ (~ always_plot)

\* line 424: the significance gate
Insignificant(far, fthresh, always_plot) ==
    (far >= fthresh) /\ (~ always_plot)

\* a raw Q-scan that searches the channel's Q range again
RawQRange_searches(qgram, channel) == channel.qrange

\* lines 429-430: the Q range and the frequency range of the raw Q-scan
RawQRange(qgram, channel) == << qgram.plane.q, qgram.plane.q >>
RawFRange(qgram, channel) == qgram.plane.frange

\* a time resolution taken from the coarsest display duration
Tres_coarsest(channel, nt) == Frac(SeqMax(channel.pranges), nt)

\* lines 432-438: the output grid
Tres(channel, nt) == Frac(SeqMin(channel.pranges), nt)
Fres(channel, nf, logf) ==
    IF logf THEN FromInt(nf)
    ELSE Frac(channel.frange[2] - channel.frange[1], nf)
Outseg(gps, channel) ==
    Segment(FracSub(FromInt(gps), Frac(SeqMax(channel.pranges), 2)),
            FracAdd(FromInt(gps), Frac(SeqMax(channel.pranges), 2)))

\* lines 416-418: condition data
ScanCondition ==
    /\ Idle
    /\ \E gps \in GpsTimes, channel \in Channels, xoft \in Series,
          fftlength \in {2}, resample \in {None, Some(2048)},
          fthresh \in FThreshes, search \in Searches, nt \in Nts,
          nf \in Nfs, logf \in BOOLEAN :
         LET c == conditioner(xoft, fftlength, None, resample,
                              Some(channel.frange[1]))
         IN /\ args' = [gps |-> gps, channel |-> channel, xoft |-> xoft,
                        fftlength |-> fftlength, resample |-> resample,
                        fthresh |-> fthresh, search |-> search, nt |-> nt,
                        nf |-> nf, logf |-> logf]
            /\ env' = [wxoft |-> c[1], hpxoft |-> c[2], xoft |-> c[3]]
            /\ calls' = << [fn |-> "conditioner", on |-> xoft] >>
    /\ op' = "scan"
    /\ status' = "running"
    /\ ret' = None
    /\ pc' = "qscan"
    /\ UNCHANGED figures

\* lines 419-423: compute whitened Q-gram
ScanQScan ==
    /\ pc = "qscan"
    /\ LET search == Segment(
               FracSub(FromInt(args.gps), Frac(args.search, 2)),
               FracAdd(FromInt(args.gps), Frac(args.search, 2)))
       IN \E r \in QScan(env.wxoft, args.channel.mismatch,
                         args.channel.qrange, args.channel.frange, search) :
            /\ env' = env @@ [search |-> search, qgram |-> r[1], far |-> r[2]]
            /\ calls' = Append(calls,
                 [fn |-> "q_scan", on |-> env.wxoft,
                  qrange |-> args.channel.qrange,
                  frange |-> args.channel.frange, search |-> search])
    /\ pc' = "gate"
    /\ UNCHANGED <<op, args, status, ret, figures>>

\* a gate that ignores always_plot
ScanGate_no_override ==
    /\ pc = "gate"
    /\ IF env.far >= args.fthresh
       THEN /\ ret' = None
            /\ status' = "returned"
            /\ pc' = "idle"
       ELSE /\ pc' = "rawscan"
            /\ UNCHANGED <<ret, status>>
    /\ UNCHANGED <<op, args, env, calls, figures>>

\* lines 424-425: the gate
ScanGate ==
    /\ pc = "gate"
    /\ IF Insignificant(env.far, args.fthresh, args.channel.always_plot)
       THEN /\ ret' = None    \* series is insignificant
            /\ status' = "returned"
            /\ pc' = "idle"
       ELSE /\ pc' = "rawscan"
            /\ UNCHANGED <<ret, status>>
    /\ UNCHANGED <<op, args, env, calls, figures>>

\* a raw Q-scan that runs whatever the gate decided
ScanRawQScan_ungated ==
    /\ pc \in {"gate", "rawscan"}
    /\ LET qrange == RawQRange(env.qgram, args.channel)
           frange == RawFRange(env.qgram, args.channel)
       IN \E r \in QScan(env.hpxoft, args.channel.mismatch, qrange, frange,
                         env.search) :
            /\ env' = env @@ [Q |-> env.qgram.plane.q, rqgram |-> r[1]]
            /\ calls' = Append(calls,
                 [fn |-> "q_scan", on |-> env.hpxoft, qrange |-> qrange,
                  frange |-> frange, search |-> env.search])
    /\ pc' = "interpolate"
    /\ UNCHANGED <<op, args, status, ret, figures>>

\* lines 426-430: compute raw Q-gram
ScanRawQScan ==
    /\ pc = "rawscan"
    /\ LET qrange == RawQRange(env.qgram, args.channel)
           frange == RawFRange(env.qgram, args.channel)
       IN \E r \in QScan(env.hpxoft, args.channel.mismatch, qrange, frange,
                         env.search) :
            /\ env' = env @@ [Q |-> env.qgram.plane.q, rqgram |-> r[1]]
            /\ calls' = Append(calls,
                 [fn |-> "q_scan", on |-> env.hpxoft, qrange |-> qrange,
                  frange |-> frange, search |-> env.search])
    /\ pc' = "interpolate"
    /\ UNCHANGED <<op, args, status, ret, figures>>

\* lines 431-444: the output grid and the interpolated whitened spectrogram
ScanInterpolate ==
    /\ pc = "interpolate"
    /\ LET tres == Tres(args.channel, args.nt)
           fres == Fres(args.channel, args.nf, args.logf)
           outseg == Outseg(args.gps, args.channel)
       IN /\ env' = env @@ [tres |-> tres, fres |-> fres, outseg |-> outseg,
                qspec |-> Interpolate(env.qgram, tres, fres, args.logf, outseg)]
          /\ calls' = Append(calls,
                [fn |-> "interpolate", on |-> env.qgram, tres |-> tres,
                 fres |-> fres, logf |-> args.logf, outseg |-> outseg])
    /\ pc' = "rinterpolate"
    /\ UNCHANGED <<op, args, status, ret, figures>>

\* lines 445-451: the interpolated raw spectrogram, and the result
ScanReturn ==
    /\ pc = "rinterpolate"
    /\ LET rqspec == Interpolate(env.rqgram, env.tres, env.fres, args.logf,
                                 env.outseg)
       IN /\ env' = env @@ [rqspec |-> rqspec]
          /\ calls' = Append(calls,
                [fn |-> "interpolate", on |-> env.rqgram, tres |-> env.tres,
                 fres |-> env.fres, logf |-> args.logf, outseg |-> env.outseg])
          /\ ret' = << env.xoft, env.hpxoft, env.wxoft, env.qgram,
                       env.rqgram, env.qspec, rqspec >>
    /\ status' = "returned"
    /\ pc' = "idle"
    /\ UNCHANGED <<op, args, figures>>

\* ------------------------------------------------- visual feature extractor

\* line 37: the module-level default path of the embedding model
ml_model == "./similarity-model-O3.h5"

\* line 327
list_of_scales == << Frac(1, 2), FromInt(1), FromInt(2), FromInt(4) >>

\* What the renderer does in one raw_read_rgb call: "none" (it works),
\* "figure" (plt.figure raises, no figure is made) or "draw" (a later
\* drawing call raises, the figure being open).
Faults == {"none", "figure", "draw"}
FaultSeqs ==
    { [k \in 1 .. Len(list_of_scales) |-> IF k = f THEN kind ELSE "none"] :
        f \in 0 .. Len(list_of_scales), kind \in {"figure", "draw"} }

\* raw_read_rgb: plt.figure registers a figure with pyplot (line 272); the
\* function draws it, reads the pixels and returns the three colour images.
\* No statement of the function closes the figure.
raw_read_rgb(spectro, scale, fault) ==
    IF fault = "figure"
    THEN [status |-> "raised", opened |-> 0, value |-> <<>>]
    ELSE IF fault = "draw"
    THEN [status |-> "raised", opened |-> 1, value |-> <<>>]
    ELSE [status |-> "ok", opened |-> 1,
          value |-> << [spectro |-> spectro, scale |-> scale, keep |-> "r"],
                       [spectro |-> spectro, scale |-> scale, keep |-> "g"],
                       [spectro |-> spectro, scale |-> scale, keep |-> "b"] >>]

\* line 334
dstack(r, g, b) ==
    [spectro |-> r.spectro, scale |-> r.scale,
     planes |-> << r.keep, g.keep, b.keep >>]

\* lines 330-337: the loop over the scales, from the k-th scale on
RECURSIVE RenderViews(_, _, _)
RenderViews(spectro, k, faults) ==
    IF k > Len(list_of_scales)
    THEN [status |-> "ok", opened |-> 0, value |-> <<>>]
    ELSE LET img == raw_read_rgb(spectro, list_of_scales[k], faults[k])
         IN IF img.status # "ok"
            THEN img
            ELSE LET rest == RenderViews(spectro, k + 1, faults)
                     view == dstack(img.value[1], img.value[2], img.value[3])
                 IN [status |-> rest.status,
                     opened |-> img.opened + rest.opened,
                     value |-> IF rest.status = "ok"
                               THEN << view >> \o rest.value ELSE <<>>]

\* '{0}'.format(x) of an optional string
Format(o) == IF o = None THEN "None" ELSE o[1]

\* extract_features(spectro, ml_model): lib says what the renderer and the
\* embedding model do.  The result tells how many figures the call opened
\* and the calls it made.
extract_features(spectro, ml_model_arg, lib) ==
    LET path_to_semantic_model == ml_model_arg
        image_data_for_si == RenderViews(spectro, 1, lib.faults)
        embed == [fn |-> "get_multiview_feature_space",
                  image_data |-> image_data_for_si.value,
                  semantic_model_name |-> Format(path_to_semantic_model),
                  image_size |-> <<140, 170>>,
                  order_of_channels |-> "channels_last"]
    IN IF image_data_for_si.status # "ok"
       THEN [status |-> "raised", value |-> [error |-> "RenderError"],
             opened |-> image_data_for_si.opened, calls |-> <<>>]
       ELSE IF lib.embed_fails
       THEN [status |-> "raised", value |-> [error |-> "EmbedError"],
             opened |-> image_data_for_si.opened, calls |-> << embed >>]
       ELSE [status |-> "returned", value |-> lib.features,
             opened |-> image_data_for_si.opened, calls |-> << embed >>]

\* ------------------------------------------------------ consistency scorer

RECURSIVE Dot(_, _)
Dot(u, v) == IF Len(u) = 0 THEN 0 ELSE u[1] * v[1] + Dot(Tail(u), Tail(v))

Stretch(u, n) == IF Len(u) = 1 THEN [i \in 1 .. n |-> u[1]] ELSE u

\* scipy.spatial.distance.cosine(u, v) = 1 - uv / sqrt(uu * vv), kept as the
\* three averages uv = avg(u * v), uu = avg(u * u), vv = avg(v * v); an
\* average over no element has the denominator 0 (nan).  Vectors of unequal
\* length: a build that multiplies elementwise (lib.broadcasts) stretches a
\* vector of length 1 to the other's length and returns a number; otherwise
\* numpy raises ValueError.
cosine(u, v, lib) ==
    IF Len(u) = Len(v) \/ (lib.broadcasts /\ (Len(u) = 1 \/ Len(v) = 1))
    THEN LET n == IF Len(u) = 1 THEN Len(v) ELSE Len(u)
             su == Stretch(u, n)
             sv == Stretch(v, n)
         IN [status |-> "returned",
             value |-> [uv |-> Frac(Dot(su, sv), n),
                        uu |-> Frac(Dot(u, u), Len(u)),
                        vv |-> Frac(Dot(v, v), Len(v))]]
    ELSE [status |-> "raised", value |-> [error |-> "ValueError"]]

\* model(spectro, hoft_features): hoft_features is empty (None, []) or the
\* pair (model identifier, features)
model(spectro, hoft_features, lib) ==
    LET given == Len(hoft_features) > 0
        ml_model_local == IF given THEN Some(hoft_features[1]) ELSE None
        hoft == IF given THEN hoft_features[2] ELSE <<>>
        x == extract_features(spectro, ml_model_local, lib)
        out == cosine(x.value, hoft, lib)
    IN IF x.status # "returned"
       THEN x
       ELSE [status |-> out.status, value |-> out.value, opened |-> x.opened,
             calls |-> x.calls \o
                 << [fn |-> "cosine", u |-> x.value, v |-> hoft] >>]

Vectors ==
    UNION { { [i \in 1 .. n |-> 1], [i \in 1 .. n |-> i] } : n \in 0 .. MaxDim }
ModelIds == { ml_model, "./other-model.h5" }
Spectros == { "qspec" }
References == { <<>> } \cup { << m, v >> : m \in ModelIds, v \in Vectors }
Libs ==
    { [faults |-> f, embed_fails |-> e, features |-> x, broadcasts |-> b] :
        f \in FaultSeqs, e \in BOOLEAN, x \in Vectors \ { <<>> },
        b \in BOOLEAN }

ExtractFeaturesCall ==
    /\ Idle
    /\ figures + Len(list_of_scales) <= MaxFigures
    /\ \E spectro \in Spectros,
          m \in { None } \cup { Some(i) : i \in ModelIds }, lib \in Libs :
         LET r == extract_features(spectro, m, lib)
         IN /\ args' = [spectro |-> spectro, ml_model |-> m]
            /\ status' = r.status
            /\ ret' = r.value
            /\ calls' = r.calls
            /\ figures' = figures + r.opened
    /\ op' = "extract_features"
    /\ env' = <<>>
    /\ UNCHANGED pc

ModelCall ==
    /\ Idle
    /\ figures + Len(list_of_scales) <= MaxFigures
    /\ \E spectro \in Spectros, hoft_features \in References, lib \in Libs :
         LET r == model(spectro, hoft_features, lib)
         IN /\ args' = [spectro |-> spectro, hoft_features |-> hoft_features]
            /\ status' = r.status
            /\ ret' = r.value
            /\ calls' = r.calls
            /\ figures' = figures + r.opened
    /\ op' = "model"
    /\ env' = <<>>
    /\ UNCHANGED pc

Init ==
    /\ pc = "idle"
    /\ op = "none"
    /\ args = <<>>
    /\ env = <<>>
    /\ calls = <<>>
    /\ status = "returned"
    /\ ret = None
    /\ figures = 0

Next ==
    \/ ConditionerCall
    \/ CrossCorrelateCall
    \/ ScanCondition
    \/ ScanQScan
    \/ ScanGate
    \/ ScanRawQScan
    \/ ScanInterpolate
    \/ ScanReturn

Spec == Init /\ [][Next]_vars

FeatureNext ==
    \/ ExtractFeaturesCall
    \/ ModelCall

FeatureSpec == Init /\ [][FeatureNext]_vars

\* ------------------------------------------------------------- properties

Returned(f) == op = f /\ pc = "idle" /\ status = "returned"
ScanResult == Returned("scan") /\ ret # None

Prefix(s, t) == Len(s) <= Len(t) /\ SubSeq(t, 1, Len(s)) = s
Min2(a, b) == IF a <= b THEN a ELSE b

\* w is s whitened with the given FFT length, then detrended
IsWhitenedFrom(w, s, fftlength) ==
    /\ w.name = s.name /\ w.sample_rate = s.sample_rate
    /\ Len(w.hist) = Len(s.hist) + 2 /\ Prefix(s.hist, w.hist)
    /\ w.hist[Len(s.hist) + 1].op = "whiten"
    /\ w.hist[Len(s.hist) + 1].fftlength = fftlength
    /\ w.hist[Len(s.hist) + 2].op = "detrend"

\* h is s high-passed, zero-phase, with the corner at f_low / 1.5
IsHighPassedFrom(h, s, f_low) ==
    /\ h.name = s.name /\ h.sample_rate = s.sample_rate
    /\ Len(h.hist) = Len(s.hist) + 1 /\ Prefix(s.hist, h.hist)
    /\ LET f == h.hist[Len(h.hist)]
       IN /\ f.op = "filter" /\ f.filtfilt
          /\ f.design.btype = "highpass"
          /\ 3 * f.design.corner.num = 2 * f_low * f.design.corner.den

\* s is the input, resampled to the given rate when one is given
IsInputAt(s, xoft, resample) ==
    IF resample = None
    THEN s = xoft
    ELSE /\ s.name = xoft.name /\ s.sample_rate = resample[1]
         /\ s.hist = Append(xoft.hist, [op |-> "resample", rate |-> resample[1]])

\* C1: a scan() call whose false-alarm estimate is at or above fthresh, a
\* tie included, on a channel without always_plot, never goes past the gate:
\* it returns None.
C1_GateCorrectness ==
    ( /\ op = "scan" /\ pc \notin {"qscan", "gate"}
      /\ env.far >= args.fthresh /\ ~ args.channel.always_plot )
    => (pc = "idle" /\ status = "returned" /\ ret = None)

C1_Witness ==
    /\ Returned("scan") /\ ~ args.channel.always_plot
    /\ env.far = args.fthresh /\ ret = None

\* C2: with always_plot set, a scan() call that returns, whatever its
\* false-alarm estimate, returns the 7-tuple (original, high-passed,
\* whitened, whitened Q-gram, raw Q-gram, interpolated whitened surface,
\* interpolated raw surface) and never None.
C2_AlwaysPlotOverride ==
    (Returned("scan") /\ args.channel.always_plot)
    => /\ ret # None /\ Len(ret) = 7
       /\ IsInputAt(ret[1], args.xoft, args.resample)
       /\ IsHighPassedFrom(ret[2], ret[1], args.channel.frange[1])
       /\ IsWhitenedFrom(ret[3], ret[2], args.fftlength)
       /\ ret[4].series = ret[3]
       /\ ret[5].series = ret[2]
       /\ ret[6].qgram = ret[4]
       /\ ret[7].qgram = ret[5]

C2_Witness ==
    /\ Returned("scan") /\ args.channel.always_plot
    /\ env.far = MaxFar /\ env.far > args.fthresh /\ Len(ret) = 7

\* C3: in a scan() call that returns a result, the raw Q-scan is the third
\* call, is made on the high-passed series with the Q range (Q, Q), Q being
\* the Q of the whitened Q-gram, and no other Q-scan is made; the two
\* Q-grams returned and interpolated have the same Q.
C3_CoResolution ==
    ScanResult
    => /\ Len(calls) = 5
       /\ { i \in 1 .. Len(calls) : calls[i].fn = "q_scan" } = {2, 3}
       /\ calls[3].on = ret[2]
       /\ calls[3].qrange = << ret[4].plane.q, ret[4].plane.q >>
       /\ ret[5].plane.q = ret[4].plane.q
       /\ ret[6].qgram.plane.q = ret[7].qgram.plane.q

C3_Witness ==
    /\ ScanResult
    /\ ret[4].plane.q # args.channel.qrange[1]
    /\ ret[5].plane.q = ret[4].plane.q

\* C4: cross_correlate correlates two series at the lower of the two rates:
\* the series with the higher rate is resampled once, to the lower rate,
\* the other one (both, when the rates are equal) is used as given.
C4_ResampleMonotonic ==
    Returned("cross_correlate")
    => LET c == ret.hist[1]
           rx == args.xoft.sample_rate
           rh == args.hoft.sample_rate
       IN /\ c.op = "correlate"
          /\ c.x.sample_rate = Min2(rx, rh)
          /\ c.h.sample_rate = Min2(rx, rh)
          /\ ret.sample_rate = Min2(rx, rh)
          /\ (rx <= rh) => c.x = args.xoft
          /\ (rh <= rx) => c.h = args.hoft
          /\ (rx > rh) => IsInputAt(c.x, args.xoft, Some(rh))
          /\ (rh > rx) => IsInputAt(c.h, args.hoft, Some(rx))

C4_Witness ==
    /\ Returned("cross_correlate")
    /\ args.xoft.sample_rate > args.hoft.sample_rate
    /\ ret.sample_rate = args.hoft.sample_rate

\* C8: conditioner returns (whitened, original) without f_low and
\* (whitened, high-passed, original) with it; original is the input,
\* resampled first when resample is given; high-passed is the high-pass of
\* original; whitened is the whitening of original without f_low and of
\* high-passed with it.
C8_ConditionerShape ==
    Returned("conditioner")
    => IF args.f_low = None
       THEN /\ Len(ret) = 2
            /\ IsInputAt(ret[2], args.xoft, args.resample)
            /\ IsWhitenedFrom(ret[1], ret[2], args.fftlength)
       ELSE /\ Len(ret) = 3
            /\ IsInputAt(ret[3], args.xoft, args.resample)
            /\ IsHighPassedFrom(ret[2], ret[3], args.f_low[1])
            /\ IsWhitenedFrom(ret[1], ret[2], args.fftlength)

C8_Witness ==
    /\ Returned("conditioner")
    /\ args.f_low # None /\ args.resample # None
    /\ args.resample[1] # args.xoft.sample_rate
    /\ Len(ret) = 3

\* C9: in a scan() call the conditioner is called first and the whitened
\* Q-scan second; the raw Q-scan and the interpolations are made only when
\* the gate has passed (estimate below fthresh, or always_plot); a call that
\* ends at the gate has made one Q-scan, on the whitened series, and no
\* interpolation, and ends by returning None, not by raising.
C9_GateOrdering ==
    op = "scan"
    => /\ Len(calls) >= 1 /\ calls[1].fn = "conditioner"
       /\ Len(calls) >= 2
          => (calls[2].fn = "q_scan" /\ calls[2].on = env.wxoft)
       /\ \A i \in 1 .. Len(calls) :
            (calls[i].fn = "interpolate"
               \/ (calls[i].fn = "q_scan" /\ calls[i].on = env.hpxoft))
            => /\ i >= 3
               /\ (env.far < args.fthresh \/ args.channel.always_plot)
       /\ ( /\ pc \notin {"qscan", "gate"}
            /\ env.far >= args.fthresh /\ ~ args.channel.always_plot )
          => /\ status = "returned" /\ ret = None
             /\ Len(calls) = 2

C9_Witness ==
    /\ Returned("scan") /\ ret = None
    /\ Len(calls) = 2 /\ calls[2].fn = "q_scan"

\* C10: in a scan() call that returns a result, the two interpolations are
\* made with the same tres, fres, logf and outseg, where
\* tres = min(pranges) / nt, outseg = [gps - max(pranges)/2,
\* gps + max(pranges)/2], and fres = nf when logf is set and
\* (frange high - frange low) / nf when it is not.
C10_CommonGrid ==
    ScanResult
    => LET w == calls[4]
           r == calls[5]
           pr == args.channel.pranges
           fr == args.channel.frange
           lo == { m \in { pr[k] : k \in 1 .. Len(pr) } :
                     \A k \in 1 .. Len(pr) : m <= pr[k] }
           hi == { m \in { pr[k] : k \in 1 .. Len(pr) } :
                     \A k \in 1 .. Len(pr) : m >= pr[k] }
       IN /\ w.fn = "interpolate" /\ w.on = ret[4]
          /\ r.fn = "interpolate" /\ r.on = ret[5]
          /\ w.tres = r.tres /\ w.fres = r.fres
          /\ w.logf = r.logf /\ w.outseg = r.outseg
          /\ w.logf = args.logf
          /\ \E m \in lo : w.tres.num * args.nt = m * w.tres.den
          /\ \E m \in hi :
               /\ 2 * (args.gps * w.outseg.lo.den - w.outseg.lo.num)
                    = m * w.outseg.lo.den
               /\ 2 * (w.outseg.hi.num - args.gps * w.outseg.hi.den)
                    = m * w.outseg.hi.den
          /\ IF args.logf
             THEN w.fres.num = args.nf * w.fres.den
             ELSE w.fres.num * args.nf = (fr[2] - fr[1]) * w.fres.den
          /\ ret[6].tres = w.tres /\ ret[7].tres = w.tres
          /\ ret[6].outseg = w.outseg /\ ret[7].outseg = w.outseg
          /\ ret[6].fres = w.fres /\ ret[7].fres = w.fres

C10_Witness ==
    /\ ScanResult /\ ~ args.logf
    /\ Len(args.channel.pranges) = 3
    /\ calls[4].tres = calls[5].tres

\* C5: whenever the scorer compares a candidate vector and a reference
\* vector of different lengths, it raises an error (DimensionMismatch) and
\* returns no score.  The formula accepts an error of any kind, so an error
\* raised by the numeric library counts in the claim's favour.
C5_DimensionValidation ==
    ( /\ op = "model" /\ Len(calls) = 2
      /\ Len(calls[2].u) # Len(calls[2].v) )
    => status = "raised"

\* C6: the scorer called without a reference invokes the embedding model
\* with the default model path and compares against the empty vector; called
\* with a pair (model identifier, features) it invokes the embedding model
\* with that identifier and compares against those features.
C6_NoReferenceFallback ==
    (op = "model" /\ Len(calls) >= 1)
    => IF Len(args.hoft_features) = 0
       THEN /\ calls[1].semantic_model_name = ml_model
            /\ Len(calls) = 2 => calls[2].v = <<>>
       ELSE /\ calls[1].semantic_model_name = args.hoft_features[1]
            /\ Len(calls) = 2 => calls[2].v = args.hoft_features[2]

\* C7: when an extract_features call has ended, by returning or by raising,
\* no figure it opened is still open.
C7_ResourceRelease ==
    (op \in {"extract_features", "model"} /\ status \in {"returned", "raised"})
    => figures = 0

====
